---------------------------- MODULE Spec2Model ----------------------------
(***************************************************************************)
(* Model of block_delivery_service (src/src/main.rs): a listener thread    *)
(* reads a Solana program-log feed, decodes Anchor events and publishes    *)
(* them on a tokio broadcast channel; one task per WebSocket client        *)
(* forwards the channel's events as JSON text frames.                      *)
(*                                                                         *)
(* Text is modelled as sequences of one-character strings where it is      *)
(* parsed (log lines) and as strings where it is only produced (base58     *)
(* identifiers, JSON frames).  Bytes are integers 0..255.                  *)
(***************************************************************************)
EXTENDS Integers, Sequences, FiniteSets, TLC

(***************************************************************************)
(* Bounds of the model.                                                    *)
(***************************************************************************)
\* Number of WebSocket connections that are ever accepted.
MaxSessions == 2

\* The argument of broadcast::channel(..) in start_server.  The program
\* passes 100; the model passes a small number that, like 100, is not a
\* power of two, so that the rounding done by the channel is visible.
RequestedCapacity == 3

Sessions == 1..MaxSessions

(***************************************************************************)
(* Generic helpers on sequences.                                           *)
(***************************************************************************)
Byte == 0..255

\* Result<T, E>: Ok(v) carries the value, every Err is the same value.
Ok(v) == [ok |-> TRUE, val |-> v]

Err == [ok |-> FALSE]

RECURSIVE Repeat(_, _)
Repeat(x, n) == IF n <= 0 THEN <<>> ELSE <<x>> \o Repeat(x, n - 1)

Take(s, n) == SubSeq(s, 1, n)

Drop(s, n) == SubSeq(s, n + 1, Len(s))

\* Concatenation of a sequence of one-character strings into one string.
RECURSIVE Text(_)
Text(cs) == IF cs = <<>> THEN "" ELSE Head(cs) \o Text(Tail(cs))

\* Index of c in the sequence s, 0 when absent.
RECURSIVE IndexFrom(_, _, _)
IndexFrom(s, c, i) ==
    IF i > Len(s) THEN 0
    ELSE IF s[i] = c THEN i
    ELSE IndexFrom(s, c, i + 1)

IndexOf(s, c) == IndexFrom(s, c, 1)

(***************************************************************************)
(* event_discriminator: the first 8 bytes of SHA-256("event:" + name).     *)
(* The hash itself is tabulated for the names the model uses.              *)
(***************************************************************************)
Sha256Prefix8(text) ==
    CASE text = "event:OrderCreated"   -> <<224, 1, 229, 63, 254, 60, 190, 159>>
      [] text = "event:OrderAccepted"  -> <<221, 229, 40, 47, 184, 34, 195, 162>>
      [] text = "event:OrderCompleted" -> <<90, 77, 52, 248, 56, 233, 110, 197>>
      [] text = "event:Unknown"        -> <<66, 170, 99, 199, 192, 217, 87, 23>>

event_discriminator(name) == Sha256Prefix8("event:" \o name)

(***************************************************************************)
(* Base64, standard alphabet with padding (general_purpose::STANDARD).     *)
(***************************************************************************)
B64Alphabet ==
    << "A","B","C","D","E","F","G","H","I","J","K","L","M","N","O","P",
       "Q","R","S","T","U","V","W","X","Y","Z","a","b","c","d","e","f",
       "g","h","i","j","k","l","m","n","o","p","q","r","s","t","u","v",
       "w","x","y","z","0","1","2","3","4","5","6","7","8","9","+","/" >>

\* 6-bit value of a base64 character, -1 when it is not in the alphabet.
B64Value(c) == IndexOf(B64Alphabet, c) - 1

\* STANDARD.encode: three bytes to four characters, '=' padding.
RECURSIVE Base64Encode(_)
Base64Encode(bs) ==
    IF bs = <<>> THEN <<>>
    ELSE IF Len(bs) = 1 THEN
        << B64Alphabet[(bs[1] \div 4) + 1],
           B64Alphabet[((bs[1] % 4) * 16) + 1], "=", "=" >>
    ELSE IF Len(bs) = 2 THEN
        << B64Alphabet[(bs[1] \div 4) + 1],
           B64Alphabet[((bs[1] % 4) * 16 + bs[2] \div 16) + 1],
           B64Alphabet[((bs[2] % 16) * 4) + 1], "=" >>
    ELSE
        << B64Alphabet[(bs[1] \div 4) + 1],
           B64Alphabet[((bs[1] % 4) * 16 + bs[2] \div 16) + 1],
           B64Alphabet[((bs[2] % 16) * 4 + bs[3] \div 64) + 1],
           B64Alphabet[(bs[3] % 64) + 1] >> \o Base64Encode(Drop(bs, 3))

\* Decoding of the complete 4-character groups that carry no padding.
RECURSIVE B64Groups(_)
B64Groups(cs) ==
    IF cs = <<>> THEN <<>>
    ELSE LET a == B64Value(cs[1])
             b == B64Value(cs[2])
             c == B64Value(cs[3])
             d == B64Value(cs[4])
         IN  << a * 4 + b \div 16, (b % 16) * 16 + c \div 4, (c % 4) * 64 + d >>
             \o B64Groups(Drop(cs, 4))

\* The last group, which may end in one or two '=': the bytes it carries, or
\* Err for a symbol outside the alphabet or non-zero trailing bits.
B64Last(g) ==
    LET a == B64Value(g[1])
        b == B64Value(g[2])
        c == B64Value(g[3])
        d == B64Value(g[4])
    IN  IF a < 0 \/ b < 0 THEN Err
        ELSE IF g[3] = "=" THEN
            IF g[4] = "=" /\ b % 16 = 0 THEN Ok(<< a * 4 + b \div 16 >>) ELSE Err
        ELSE IF c < 0 THEN Err
        ELSE IF g[4] = "=" THEN
            IF c % 4 = 0
            THEN Ok(<< a * 4 + b \div 16, (b % 16) * 16 + c \div 4 >>)
            ELSE Err
        ELSE IF d < 0 THEN Err
        ELSE Ok(<< a * 4 + b \div 16, (b % 16) * 16 + c \div 4, (c % 4) * 64 + d >>)

\* STANDARD.decode.
Base64Decode(cs) ==
    IF cs = <<>> THEN Ok(<<>>)
    ELSE IF Len(cs) % 4 # 0 THEN Err
    ELSE LET body == Take(cs, Len(cs) - 4)
             last == B64Last(Drop(cs, Len(cs) - 4))
         IN  IF \E i \in 1..Len(body) : B64Value(body[i]) < 0 THEN Err
             ELSE IF ~last.ok THEN Err
             ELSE Ok(B64Groups(body) \o last.val)

(***************************************************************************)
(* Borsh: fixed-width fields in declared order, integers little-endian,    *)
(* Pubkey as its 32 raw bytes.  Deserialization reads field after field    *)
(* and fails when bytes are missing; try_from_slice also fails when bytes  *)
(* are left over.                                                          *)
(***************************************************************************)
PubkeyLen == 32

U64Len == 8

\* u64::from_le_bytes.  The model's inputs stay below 2^31.
RECURSIVE U64FromLe(_)
U64FromLe(bs) == IF bs = <<>> THEN 0 ELSE Head(bs) + 256 * U64FromLe(Tail(bs))

\* u64::to_le_bytes.
RECURSIVE LeBytes(_, _)
LeBytes(n, width) ==
    IF width = 0 THEN <<>> ELSE <<n % 256>> \o LeBytes(n \div 256, width - 1)

U64ToLe(n) == LeBytes(n, U64Len)

\* Reads the fields of the given widths from the front of buf:
\* Ok([fields, rest]) or Err when buf is too short for a field.
RECURSIVE BorshRead(_, _)
BorshRead(buf, widths) ==
    IF widths = <<>> THEN Ok([fields |-> <<>>, rest |-> buf])
    ELSE IF Len(buf) < Head(widths) THEN Err
    ELSE LET more == BorshRead(Drop(buf, Head(widths)), Tail(widths))
         IN  IF ~more.ok THEN Err
             ELSE Ok([fields |-> <<Take(buf, Head(widths))>> \o more.val.fields,
                      rest   |-> more.val.rest])

\* A variant of try_from_slice that ignores bytes left over.
try_from_slice_prefix(data, widths) ==
    LET r == BorshRead(data, widths)
    IN  IF ~r.ok THEN Err ELSE Ok(r.val.fields)

\* BorshDeserialize::try_from_slice: the value, or Err when the slice is too
\* short or not all bytes were read.
try_from_slice(data, widths) ==
    LET r == BorshRead(data, widths)
    IN  IF ~r.ok THEN Err
        ELSE IF r.val.rest # <<>> THEN Err
        ELSE Ok(r.val.fields)

\* A decoder of OrderCreated that reads the two identifiers in the other
\* order.
OrderCreated_try_from_slice_swapped(data) ==
    LET r == try_from_slice(data, <<PubkeyLen, U64Len, PubkeyLen, U64Len>>)
    IN  IF ~r.ok THEN Err
        ELSE Ok([ order    |-> r.val[3],
                  order_id |-> U64FromLe(r.val[2]),
                  customer |-> r.val[1],
                  amount   |-> U64FromLe(r.val[4]) ])

OrderCreated_try_from_slice(data) ==
    LET r == try_from_slice(data, <<PubkeyLen, U64Len, PubkeyLen, U64Len>>)
    IN  IF ~r.ok THEN Err
        ELSE Ok([ order    |-> r.val[1],
                  order_id |-> U64FromLe(r.val[2]),
                  customer |-> r.val[3],
                  amount   |-> U64FromLe(r.val[4]) ])

OrderAccepted_try_from_slice(data) ==
    LET r == try_from_slice(data, <<PubkeyLen, PubkeyLen>>)
    IN  IF ~r.ok THEN Err
        ELSE Ok([ order   |-> r.val[1],
                  courier |-> r.val[2] ])

OrderCompleted_try_from_slice(data) ==
    LET r == try_from_slice(data, <<PubkeyLen, U64Len, PubkeyLen, U64Len>>)
    IN  IF ~r.ok THEN Err
        ELSE Ok([ order    |-> r.val[1],
                  order_id |-> U64FromLe(r.val[2]),
                  courier  |-> r.val[3],
                  amount   |-> U64FromLe(r.val[4]) ])

(***************************************************************************)
(* Pubkey::to_string: base58 (Bitcoin alphabet) of the 32 bytes, one '1'   *)
(* per leading zero byte.  The big number is kept as its byte sequence.    *)
(***************************************************************************)
B58Alphabet ==
    << "1","2","3","4","5","6","7","8","9","A","B","C","D","E","F","G",
       "H","J","K","L","M","N","P","Q","R","S","T","U","V","W","X","Y",
       "Z","a","b","c","d","e","f","g","h","i","j","k","m","n","o","p",
       "q","r","s","t","u","v","w","x","y","z" >>

RECURSIVE LeadingZeros(_)
LeadingZeros(bs) ==
    IF bs = <<>> \/ Head(bs) # 0 THEN 0 ELSE 1 + LeadingZeros(Tail(bs))

\* Long division of a big-endian byte sequence by 58, carry is the running
\* remainder: <<quotient bytes, remainder>>.
RECURSIVE DivMod58(_, _)
DivMod58(bs, carry) ==
    IF bs = <<>> THEN << <<>>, carry >>
    ELSE LET cur  == carry * 256 + Head(bs)
             rest == DivMod58(Tail(bs), cur % 58)
         IN  << <<cur \div 58>> \o rest[1], rest[2] >>

\* Base58 digits of the number, most significant first, as text.
RECURSIVE B58Digits(_)
B58Digits(bs) ==
    LET n == Drop(bs, LeadingZeros(bs))
    IN  IF n = <<>> THEN ""
        ELSE LET qr == DivMod58(n, 0)
             IN  B58Digits(qr[1]) \o B58Alphabet[qr[2] + 1]

\* A base58 encoding that forgets the '1' of each leading zero byte.
Pubkey_to_string_no_leading_ones(bytes) == B58Digits(bytes)

Pubkey_to_string(bytes) ==
    Text(Repeat("1", LeadingZeros(bytes))) \o B58Digits(bytes)

(***************************************************************************)
(* WebEvent and its JSON text (serde, internally tagged with "type").      *)
(***************************************************************************)
WebEvent_OrderCreated(order, order_id, customer, amount) ==
    [ type |-> "OrderCreated", order |-> order, order_id |-> order_id,
      customer |-> customer, amount |-> amount ]

WebEvent_OrderAccepted(order, courier) ==
    [ type |-> "OrderAccepted", order |-> order, courier |-> courier ]

WebEvent_OrderCompleted(order, order_id, courier, amount) ==
    [ type |-> "OrderCompleted", order |-> order, order_id |-> order_id,
      courier |-> courier, amount |-> amount ]

DecimalDigits == << "0","1","2","3","4","5","6","7","8","9" >>

\* Decimal text of an unsigned integer.
RECURSIVE Decimal(_)
Decimal(n) ==
    IF n < 10 THEN DecimalDigits[n + 1]
    ELSE Decimal(n \div 10) \o DecimalDigits[(n % 10) + 1]

JsonString(text) == "\"" \o text \o "\""

\* serde_json::to_string(&event): the tag first, then the variant's fields in
\* declared order.  It cannot fail for these types.
serde_json_to_string(event) ==
    CASE event.type = "OrderCreated" ->
            "{\"type\":\"OrderCreated\",\"order\":" \o JsonString(event.order)
            \o ",\"order_id\":" \o Decimal(event.order_id)
            \o ",\"customer\":" \o JsonString(event.customer)
            \o ",\"amount\":" \o Decimal(event.amount) \o "}"
      [] event.type = "OrderAccepted" ->
            "{\"type\":\"OrderAccepted\",\"order\":" \o JsonString(event.order)
            \o ",\"courier\":" \o JsonString(event.courier) \o "}"
      [] event.type = "OrderCompleted" ->
            "{\"type\":\"OrderCompleted\",\"order\":" \o JsonString(event.order)
            \o ",\"order_id\":" \o Decimal(event.order_id)
            \o ",\"courier\":" \o JsonString(event.courier)
            \o ",\"amount\":" \o Decimal(event.amount) \o "}"

(***************************************************************************)
(* The body of listen's inner loop for one log line, up to the call of     *)
(* tx.send: Ok(event) when the line yields an event to publish, Err when   *)
(* the line is skipped.                                                    *)
(***************************************************************************)
Marker == << "P","r","o","g","r","a","m"," ","d","a","t","a",":"," " >>

\* str::strip_prefix.
strip_prefix(log, prefix) ==
    IF Len(log) >= Len(prefix) /\ Take(log, Len(prefix)) = prefix
    THEN Ok(Drop(log, Len(prefix)))
    ELSE Err

\* One log line up to bytes.split_at(8): Ok of the discriminator and the
\* data after it, Err when the line is skipped.
extract_envelope(log) ==
    LET base64_data == strip_prefix(log, Marker)
    IN  IF ~base64_data.ok THEN Err
        ELSE LET bytes == Base64Decode(base64_data.val)
             IN  IF ~bytes.ok THEN Err
                 ELSE IF Len(bytes.val) < 8 THEN Err
                 ELSE Ok([ disc |-> Take(bytes.val, 8),
                           data |-> Drop(bytes.val, 8) ])

\* A dispatch that ignores the discriminator and takes the first schema the
\* data decodes as.
decode_event_by_shape(disc, data) ==
    LET c == OrderCreated_try_from_slice(data)
        a == OrderAccepted_try_from_slice(data)
    IN  IF c.ok THEN Ok([type |-> "OrderCreated", e |-> c.val])
        ELSE IF a.ok THEN Ok([type |-> "OrderAccepted", e |-> a.val])
        ELSE Err

\* The if / else-if chain on the discriminator: the first schema whose
\* discriminator matches is decoded, and no other; Ok of the schema's name
\* and the decoded struct e, Err when nothing is to be published.
decode_event(disc, data) ==
    IF disc = event_discriminator("OrderCreated") THEN
        LET e == OrderCreated_try_from_slice(data)
        IN  IF ~e.ok THEN Err ELSE Ok([type |-> "OrderCreated", e |-> e.val])
    ELSE IF disc = event_discriminator("OrderAccepted") THEN
        LET e == OrderAccepted_try_from_slice(data)
        IN  IF ~e.ok THEN Err ELSE Ok([type |-> "OrderAccepted", e |-> e.val])
    ELSE IF disc = event_discriminator("OrderCompleted") THEN
        LET e == OrderCompleted_try_from_slice(data)
        IN  IF ~e.ok THEN Err ELSE Ok([type |-> "OrderCompleted", e |-> e.val])
    ELSE Err

\* The WebEvent built from the decoded struct e: identifiers as text.
web_event(type, e) ==
    CASE type = "OrderCreated" ->
            WebEvent_OrderCreated(Pubkey_to_string(e.order), e.order_id,
                                  Pubkey_to_string(e.customer), e.amount)
      [] type = "OrderAccepted" ->
            WebEvent_OrderAccepted(Pubkey_to_string(e.order),
                                   Pubkey_to_string(e.courier))
      [] type = "OrderCompleted" ->
            WebEvent_OrderCompleted(Pubkey_to_string(e.order), e.order_id,
                                    Pubkey_to_string(e.courier), e.amount)

\* The dispatch on the discriminator, up to the call of tx.send: Ok of the
\* event to publish, Err when the decode fails or no schema matches.
dispatch(disc, data) ==
    LET d == decode_event(disc, data)
    IN  IF ~d.ok THEN Err ELSE Ok(web_event(d.val.type, d.val.e))

listen_log(log) ==
    LET envelope == extract_envelope(log)
    IN  IF ~envelope.ok THEN Err
        ELSE dispatch(envelope.val.disc, envelope.val.data)

(***************************************************************************)
(* The log feed: what the on-chain program emits.  An Anchor event is      *)
(* logged as "Program data: " followed by the base64 of its discriminator  *)
(* and its Borsh body.                                                     *)
(***************************************************************************)
OrderKey == [i \in 1..PubkeyLen |-> i]

ZeroKey == [i \in 1..PubkeyLen |-> 0]

CourierKey == [i \in 1..PubkeyLen |-> IF i <= 2 THEN 0 ELSE 7]

EmitLine(bytes) == Marker \o Base64Encode(bytes)

OrderCreatedBody(order, order_id, customer, amount) ==
    order \o U64ToLe(order_id) \o customer \o U64ToLe(amount)

OrderAcceptedBody(order, courier) == order \o courier

OrderCompletedBody(order, order_id, courier, amount) ==
    order \o U64ToLe(order_id) \o courier \o U64ToLe(amount)

LineIds ==
    { "created", "accepted", "completed", "noOrderField", "noMarker",
      "badBase64", "short", "unknownTag", "longBody" }

\* The log lines of the model, by name.
LogLine(id) ==
    CASE id = "created" ->
            EmitLine(event_discriminator("OrderCreated")
                     \o OrderCreatedBody(OrderKey, 42, ZeroKey, 1000))
      [] id = "accepted" ->
            EmitLine(event_discriminator("OrderAccepted")
                     \o OrderAcceptedBody(OrderKey, CourierKey))
      [] id = "completed" ->
            EmitLine(event_discriminator("OrderCompleted")
                     \o OrderCompletedBody(OrderKey, 42, CourierKey, 1000))
      \* tag(OrderCreated) ++ order_id=42 ++ customer=<32 zero bytes> ++
      \* amount=1000: an OrderCreated body without its order field
      [] id = "noOrderField" ->
            EmitLine(event_discriminator("OrderCreated")
                     \o U64ToLe(42) \o ZeroKey \o U64ToLe(1000))
      \* an ordinary program log line
      [] id = "noMarker" ->
            << "P","r","o","g","r","a","m"," ","l","o","g",":"," ",
               "C","r","e","a","t","e","O","r","d","e","r" >>
      \* '*' is not a base64 symbol
      [] id = "badBase64" ->
            Marker \o << "A","A","A","A","*","A","A","A" >>
      \* five bytes: shorter than a discriminator
      [] id = "short" ->
            EmitLine(Take(event_discriminator("OrderCreated"), 5))
      \* a well-formed event of a schema the listener does not know
      [] id = "unknownTag" ->
            EmitLine(event_discriminator("Unknown")
                     \o OrderAcceptedBody(OrderKey, CourierKey))
      \* an OrderAccepted body followed by one more byte
      [] id = "longBody" ->
            EmitLine(event_discriminator("OrderAccepted")
                     \o OrderAcceptedBody(OrderKey, CourierKey) \o <<0>>)

\* What listen does with each line of the model (listen_log, tabulated).
Decoded == [id \in LineIds |-> listen_log(LogLine(id))]

\* The feeds of the model: each a sequence of messages, each message the
\* sequence of its log lines (msg.value.logs).
Feeds ==
    << \* malformed lines, each followed by well-formed ones
       << <<"noMarker", "created">>, <<>>, <<"badBase64", "short">>,
          <<"unknownTag">>, <<"noOrderField", "longBody", "accepted">> >>,
       \* a burst of events
       << <<"created">>, <<"accepted", "completed">>, <<"created">>,
          <<"accepted">> >> >>

(***************************************************************************)
(* Emitted lines for the decoding pipeline taken alone: a discriminator,   *)
(* then the body of one of the three layouts built from chosen field       *)
(* values, one byte short, exact, or one byte long.                        *)
(***************************************************************************)
CodecKeys == { OrderKey, CourierKey }

\* 16909060 is 0x01020304: four different bytes.
CodecU64s == { 0, 16909060, 2147483647 }

CodecTags == { "OrderCreated", "OrderAccepted", "OrderCompleted", "Unknown" }

CodecLayouts == { "OrderCreated", "OrderAccepted", "OrderCompleted" }

CodecInputs ==
    [ tag : CodecTags, layout : CodecLayouts, pad : {-1, 0, 1},
      order : CodecKeys, order_id : CodecU64s,
      party : CodecKeys, amount : CodecU64s ]

\* The canonical body of the input's layout.
CodecCanonicalBody(in) ==
    CASE in.layout = "OrderCreated" ->
            OrderCreatedBody(in.order, in.order_id, in.party, in.amount)
      [] in.layout = "OrderAccepted" ->
            OrderAcceptedBody(in.order, in.party)
      [] in.layout = "OrderCompleted" ->
            OrderCompletedBody(in.order, in.order_id, in.party, in.amount)

CodecBody(in) ==
    LET body == CodecCanonicalBody(in)
    IN  IF in.pad < 0 THEN Take(body, Len(body) - 1)
        ELSE IF in.pad > 0 THEN body \o <<0>>
        ELSE body

CodecLine(in) == EmitLine(event_discriminator(in.tag) \o CodecBody(in))

NoInput == [tag |-> "None"]

NoOutput == [done |-> FALSE]

(***************************************************************************)
(* State.                                                                  *)
(***************************************************************************)
VARIABLES
    feedNo,     \* which of Feeds the log feed delivers
    feed,       \* the logs subscription: "none", "open", "failed", "ended"
    lpc,        \* listener thread: "subscribe", "recv", "logs", "stopped"
    msgIdx,     \* number of feed messages the listener has received
    logIdx,     \* index in the current message's logs of the line to process
    tail,       \* broadcast channel: position the next sent value gets
    rx_cnt,     \* broadcast channel: number of live receivers
    num_tx,     \* broadcast channel: number of live senders
    buffer,     \* broadcast channel: the ring of slots [pos, val]
    spc,        \* per session: "idle", "recv", "send", "closed"
    next,       \* per session: its receiver's next position to read
    pending,    \* per session: the frame handed to socket.send, if any
    sent,       \* per session: the frames written to its socket, in order
    conn,       \* per session: the client's connection, "none", "open",
                \* "broken" (client gone), "closed" (socket dropped)
    exit,       \* per session: how handle_socket's loop ended, "none",
                \* "recv_error" (rx.recv() returned Err), "send_error"
    published,  \* history: every call of tx.send, in order
    subPos,     \* history: per session, tail when it subscribed
    publishedSinceGone,
                \* history, kept in SpecNoted only: per session, whether
                \* tx.send was called after its client went away and before
                \* handle_socket returned
    codecIn,    \* the decoding pipeline taken alone: the emitted input
    codecOut    \* the decoding pipeline taken alone: what it made of it

listenerVars == << feedNo, feed, lpc, msgIdx, logIdx >>

channelVars == << tail, rx_cnt, num_tx, buffer >>

sessionVars == << spc, next, pending, sent, conn, exit, subPos,
                 publishedSinceGone >>

codecVars == << codecIn, codecOut >>

vars == << feedNo, feed, lpc, msgIdx, logIdx, tail, rx_cnt, num_tx, buffer,
           spc, next, pending, sent, conn, exit, published, subPos,
           publishedSinceGone, codecIn, codecOut >>

(***************************************************************************)
(* tokio::sync::broadcast.  channel(n) rounds n up to a power of two and   *)
(* allocates that many slots; slot i starts with pos = i - capacity.       *)
(***************************************************************************)
RECURSIVE PowerOfTwoFrom(_, _)
PowerOfTwoFrom(p, n) == IF p >= n THEN p ELSE PowerOfTwoFrom(2 * p, n)

next_power_of_two(n) == PowerOfTwoFrom(1, n)

\* The number of slots of the channel start_server creates.
Capacity == next_power_of_two(RequestedCapacity)

NoEvent == [type |-> "None"]

NoFrame == [pos |-> -1, frame |-> ""]

SlotIndex(pos) == pos % Capacity

\* The live receivers: the sessions inside handle_socket's loop.
Active == { s \in Sessions : spc[s] \in {"recv", "send"} }

\* Number of values a receiver has not read yet, counting overwritten ones.
Backlog(s) == tail - next[s]

\* Sender::send that waits for room in every receiver's queue, as a bounded
\* queue per receiver would.
tx_send_blocking(event) ==
    /\ \A s \in Active : Backlog(s) < Capacity
    /\ IF rx_cnt = 0
       THEN UNCHANGED << tail, buffer >>
       ELSE /\ buffer' = [buffer EXCEPT
                            ![SlotIndex(tail)] = [pos |-> tail, val |-> event]]
            /\ tail' = tail + 1
    /\ UNCHANGED << rx_cnt, num_tx >>

\* Sender::send that refuses the new value while a receiver's queue is full.
tx_send_drop_newest(event) ==
    /\ IF rx_cnt = 0 \/ \E s \in Active : Backlog(s) >= Capacity
       THEN UNCHANGED << tail, buffer >>
       ELSE /\ buffer' = [buffer EXCEPT
                            ![SlotIndex(tail)] = [pos |-> tail, val |-> event]]
            /\ tail' = tail + 1
    /\ UNCHANGED << rx_cnt, num_tx >>

\* Sender::send of a channel without a bound: every value gets a slot of its
\* own and none is overwritten.
tx_send_unbounded(event) ==
    /\ IF rx_cnt = 0
       THEN UNCHANGED << tail, buffer >>
       ELSE /\ buffer' = (tail :> [pos |-> tail, val |-> event]) @@ buffer
            /\ tail' = tail + 1
    /\ UNCHANGED << rx_cnt, num_tx >>

\* Sender::send: with no receiver the value is returned in an Err (which
\* listen ignores); otherwise it overwrites the slot at tail, whatever that
\* slot holds, and tail advances.  It never waits.
tx_send(event) ==
    /\ IF rx_cnt = 0
       THEN UNCHANGED << tail, buffer >>
       ELSE /\ buffer' = [buffer EXCEPT
                            ![SlotIndex(tail)] = [pos |-> tail, val |-> event]]
            /\ tail' = tail + 1
    /\ UNCHANGED << rx_cnt, num_tx >>

\* A subscribe that starts the new receiver at the oldest retained value.
new_receiver_next_oldest == IF tail > Capacity THEN tail - Capacity ELSE 0

\* Sender::subscribe: the new receiver starts at tail, after everything
\* sent so far.
new_receiver_next == tail

\* A recv that leaves the receiver's cursor where it was.
rx_next_after_recv_stuck(s) == next[s]

\* The receiver's cursor after recv returned the value at next.
rx_next_after_recv(s) == next[s] + 1

\* A recv that returns the latest value sent instead of the one at next.
rx_recv_latest(s) == Ok(buffer[SlotIndex(tail - 1)].val)

\* A recv that returns only when at least two values wait.
rx_ready_batched(s) == next[s] + 1 < tail \/ num_tx = 0

\* Receiver::recv on the session's receiver, when it returns at once:
\* Ok(value) when the slot at next still holds position next, Err (Lagged)
\* when the slot was overwritten.  At next = tail the call waits while a
\* sender is alive, and returns Err (Closed) when none is.
rx_ready(s) == next[s] < tail \/ num_tx = 0

rx_recv(s) ==
    LET slot == buffer[SlotIndex(next[s])]
    IN  IF slot.pos = next[s] THEN Ok(slot.val) ELSE Err

(***************************************************************************)
(* Initial state: start_server has created the channel and dropped the     *)
(* receiver channel() returned, the router's state holds one sender and    *)
(* the listener thread, about to subscribe to the logs, the other; no      *)
(* client is connected.                                                    *)
(***************************************************************************)
Started ==
    /\ feed = "none"
    /\ lpc = "subscribe"
    /\ msgIdx = 0
    /\ logIdx = 0
    /\ tail = 0
    /\ rx_cnt = 0
    /\ num_tx = 2
    /\ buffer = [i \in 0..(Capacity - 1) |-> [pos |-> i - Capacity, val |-> NoEvent]]
    /\ spc = [s \in Sessions |-> "idle"]
    /\ next = [s \in Sessions |-> 0]
    /\ pending = [s \in Sessions |-> NoFrame]
    /\ sent = [s \in Sessions |-> <<>>]
    /\ conn = [s \in Sessions |-> "none"]
    /\ exit = [s \in Sessions |-> "none"]
    /\ published = <<>>
    /\ subPos = [s \in Sessions |-> -1]
    /\ publishedSinceGone = [s \in Sessions |-> FALSE]

Init ==
    /\ feedNo \in 1..Len(Feeds)
    /\ Started
    /\ codecIn = NoInput
    /\ codecOut = NoOutput

(***************************************************************************)
(* The listener thread (listen).                                           *)
(***************************************************************************)
\* A return of listen that closes the channel, whoever else holds a sender.
drop_tx_all == num_tx' = 0

\* Dropping one Sender: listen's when the thread ends, a session's when
\* handle_socket returns.
drop_tx == num_tx' = num_tx - 1

\* PubsubClient::logs_subscribe succeeds.
LogsSubscribeOk ==
    /\ lpc = "subscribe"
    /\ feed' = "open"
    /\ lpc' = "recv"
    /\ UNCHANGED << feedNo, msgIdx, logIdx, published >>
    /\ UNCHANGED channelVars
    /\ UNCHANGED sessionVars
    /\ UNCHANGED codecVars

\* PubsubClient::logs_subscribe fails: expect panics and the thread dies.
LogsSubscribeFail ==
    /\ lpc = "subscribe"
    /\ feed' = "failed"
    /\ lpc' = "stopped"
    /\ UNCHANGED << feedNo, msgIdx, logIdx, published >>
    /\ drop_tx
    /\ UNCHANGED << tail, rx_cnt, buffer >>
    /\ UNCHANGED sessionVars
    /\ UNCHANGED codecVars

\* for msg in receiver: the next message arrives.
RecvMsg ==
    /\ lpc = "recv"
    /\ feed = "open"
    /\ msgIdx < Len(Feeds[feedNo])
    /\ msgIdx' = msgIdx + 1
    /\ IF Feeds[feedNo][msgIdx + 1] = <<>>
       THEN UNCHANGED << lpc, logIdx >>
       ELSE lpc' = "logs" /\ logIdx' = 1
    /\ UNCHANGED << feedNo, feed, published >>
    /\ UNCHANGED channelVars
    /\ UNCHANGED sessionVars
    /\ UNCHANGED codecVars

\* The listener's reaction to the end of the feed that goes back to
\* logs_subscribe.
FeedEndResubscribe ==
    /\ lpc = "recv"
    /\ feed = "open"
    /\ feed' = "ended"
    /\ lpc' = "subscribe"
    /\ UNCHANGED << feedNo, msgIdx, logIdx, published >>
    /\ UNCHANGED channelVars
    /\ UNCHANGED sessionVars
    /\ UNCHANGED codecVars

\* for msg in receiver: the feed's sequence ends, the loop ends and listen
\* returns.
FeedEnd ==
    /\ lpc = "recv"
    /\ feed = "open"
    /\ feed' = "ended"
    /\ lpc' = "stopped"
    /\ UNCHANGED << feedNo, msgIdx, logIdx, published >>
    /\ drop_tx
    /\ UNCHANGED << tail, rx_cnt, buffer >>
    /\ UNCHANGED sessionVars
    /\ UNCHANGED codecVars

\* One iteration of for log in &msg.value.logs, the history variable
\* publishedSinceGone left aside.
ProcessLogStep ==
    /\ lpc = "logs"
    /\ LET id == Feeds[feedNo][msgIdx][logIdx]
           r  == Decoded[id]
       IN  IF r.ok
           THEN /\ tx_send(r.val)
                /\ published' = Append(published,
                      [ line  |-> id,
                        event |-> r.val,
                        pos   |-> IF rx_cnt = 0 THEN -1 ELSE tail ])
           ELSE UNCHANGED << tail, rx_cnt, num_tx, buffer, published >>
    /\ IF logIdx < Len(Feeds[feedNo][msgIdx])
       THEN logIdx' = logIdx + 1 /\ UNCHANGED lpc
       ELSE logIdx' = 0 /\ lpc' = "recv"
    /\ UNCHANGED << feedNo, feed, msgIdx >>
    /\ UNCHANGED << spc, next, pending, sent, conn, exit, subPos >>
    /\ UNCHANGED codecVars

\* One iteration of for log in &msg.value.logs.
ProcessLog == ProcessLogStep /\ UNCHANGED publishedSinceGone

\* The same iteration, with the history kept: a call of tx.send is noted for
\* every session whose client has gone away.
ProcessLogNoted ==
    /\ ProcessLogStep
    /\ publishedSinceGone' =
          IF published' # published
          THEN [s \in Sessions |-> publishedSinceGone[s] \/ conn[s] = "broken"]
          ELSE publishedSinceGone

(***************************************************************************)
(* A WebSocket session (ws_handler, handle_socket).  Sessions are numbered *)
(* in the order in which their clients connect.                            *)
(***************************************************************************)
\* A drop that closes the channel for every receiver.
drop_rx_all(s) == rx_cnt' = 0

\* A return from handle_socket that leaks the receiver.
drop_rx_leak(s) == rx_cnt' = rx_cnt

\* Dropping the session's receiver when handle_socket returns.
drop_rx(s) == rx_cnt' = rx_cnt - 1

\* A client connects: ws_handler clones the router's sender for the
\* session, handle_socket starts and subscribes.
Subscribe(s) ==
    /\ spc[s] = "idle"
    /\ IF s = 1 THEN TRUE ELSE spc[s - 1] # "idle"
    /\ num_tx' = num_tx + 1
    /\ rx_cnt' = rx_cnt + 1
    /\ next' = [next EXCEPT ![s] = new_receiver_next]
    /\ subPos' = [subPos EXCEPT ![s] = tail]
    /\ spc' = [spc EXCEPT ![s] = "recv"]
    /\ conn' = [conn EXCEPT ![s] = "open"]
    /\ UNCHANGED << tail, buffer, pending, sent, exit, published,
                    publishedSinceGone >>
    /\ UNCHANGED listenerVars
    /\ UNCHANGED codecVars

\* rx.recv().await returns; on Ok the event is serialized and handed to
\* socket.send, on Err the loop ends and handle_socket returns.
Recv(s) ==
    /\ spc[s] = "recv"
    /\ rx_ready(s)
    /\ LET r == rx_recv(s)
       IN  IF r.ok
           THEN /\ next' = [next EXCEPT ![s] = rx_next_after_recv(s)]
                /\ pending' = [pending EXCEPT ![s] =
                      [pos |-> next[s], frame |-> serde_json_to_string(r.val)]]
                /\ spc' = [spc EXCEPT ![s] = "send"]
                /\ UNCHANGED << rx_cnt, num_tx, conn, exit,
                                publishedSinceGone >>
           ELSE /\ spc' = [spc EXCEPT ![s] = "closed"]
                /\ exit' = [exit EXCEPT ![s] = "recv_error"]
                /\ conn' = [conn EXCEPT ![s] = "closed"]
                /\ drop_rx(s)
                /\ drop_tx
                /\ UNCHANGED << next, pending, publishedSinceGone >>
    /\ UNCHANGED << tail, buffer, sent, subPos, published >>
    /\ UNCHANGED listenerVars
    /\ UNCHANGED codecVars

\* socket.send(..).await succeeds.
SocketSendOk(s) ==
    /\ spc[s] = "send"
    /\ conn[s] = "open"
    /\ sent' = [sent EXCEPT ![s] = Append(sent[s], pending[s])]
    /\ pending' = [pending EXCEPT ![s] = NoFrame]
    /\ spc' = [spc EXCEPT ![s] = "recv"]
    /\ UNCHANGED << tail, rx_cnt, num_tx, buffer, next, conn, exit, subPos,
                    published, publishedSinceGone >>
    /\ UNCHANGED listenerVars
    /\ UNCHANGED codecVars

\* socket.send(..).await fails: break, handle_socket returns.
SocketSendErr(s) ==
    /\ spc[s] = "send"
    /\ conn[s] = "broken"
    /\ spc' = [spc EXCEPT ![s] = "closed"]
    /\ exit' = [exit EXCEPT ![s] = "send_error"]
    /\ conn' = [conn EXCEPT ![s] = "closed"]
    /\ pending' = [pending EXCEPT ![s] = NoFrame]
    /\ drop_rx(s)
    /\ drop_tx
    /\ UNCHANGED << tail, buffer, next, sent, subPos, published,
                    publishedSinceGone >>
    /\ UNCHANGED listenerVars
    /\ UNCHANGED codecVars

\* A disconnect that wakes the session: handle_socket returns at once.
ClientGoneDetected(s) ==
    /\ spc[s] \in {"recv", "send"}
    /\ conn[s] = "open"
    /\ spc' = [spc EXCEPT ![s] = "closed"]
    /\ exit' = [exit EXCEPT ![s] = "send_error"]
    /\ conn' = [conn EXCEPT ![s] = "closed"]
    /\ pending' = [pending EXCEPT ![s] = NoFrame]
    /\ drop_rx(s)
    /\ drop_tx
    /\ UNCHANGED << tail, buffer, next, sent, subPos, published,
                    publishedSinceGone >>
    /\ UNCHANGED listenerVars
    /\ UNCHANGED codecVars

\* The client goes away; the server is not told.
ClientGone(s) ==
    /\ spc[s] \in {"recv", "send"}
    /\ conn[s] = "open"
    /\ conn' = [conn EXCEPT ![s] = "broken"]
    /\ UNCHANGED << tail, rx_cnt, num_tx, buffer, spc, next, pending, sent,
                    exit, subPos, published, publishedSinceGone >>
    /\ UNCHANGED listenerVars
    /\ UNCHANGED codecVars

Next ==
    \/ LogsSubscribeOk
    \/ LogsSubscribeFail
    \/ RecvMsg
    \/ FeedEnd
    \/ ProcessLog
    \/ \E s \in Sessions : Subscribe(s)
    \/ \E s \in Sessions : Recv(s)
    \/ \E s \in Sessions : SocketSendOk(s)
    \/ \E s \in Sessions : SocketSendErr(s)
    \/ \E s \in Sessions : ClientGone(s)

Spec == Init /\ [][Next]_vars

\* The program with the history publishedSinceGone kept.
NextNoted ==
    \/ LogsSubscribeOk
    \/ LogsSubscribeFail
    \/ RecvMsg
    \/ FeedEnd
    \/ ProcessLogNoted
    \/ \E s \in Sessions : Subscribe(s)
    \/ \E s \in Sessions : Recv(s)
    \/ \E s \in Sessions : SocketSendOk(s)
    \/ \E s \in Sessions : SocketSendErr(s)
    \/ \E s \in Sessions : ClientGone(s)

SpecNoted == Init /\ [][NextNoted]_vars

(***************************************************************************)
(* The decoding pipeline taken alone: the body of listen's inner loop      *)
(* applied to one emitted line, nothing else happening.                    *)
(***************************************************************************)
CodecInit ==
    /\ feedNo = 1
    /\ Started
    /\ codecIn \in CodecInputs
    /\ codecOut = NoOutput

\* What listen's inner loop makes of one line: the length of the data after
\* the discriminator (-1 when no envelope is extracted), the decoded struct,
\* and the event handed to tx.send.
CodecResult(log) ==
    LET envelope == extract_envelope(log)
    IN  [ done    |-> TRUE,
          width   |-> IF envelope.ok THEN Len(envelope.val.data) ELSE -1,
          decoded |-> IF envelope.ok
                      THEN decode_event(envelope.val.disc, envelope.val.data)
                      ELSE Err,
          publish |-> listen_log(log) ]

CodecDecode ==
    /\ codecIn # NoInput
    /\ codecOut = NoOutput
    /\ codecOut' = CodecResult(CodecLine(codecIn))
    /\ UNCHANGED codecIn
    /\ UNCHANGED listenerVars
    /\ UNCHANGED channelVars
    /\ UNCHANGED sessionVars
    /\ UNCHANGED published

CodecNext == CodecDecode

SpecCodec == CodecInit /\ [][CodecNext]_vars

(***************************************************************************)
(* The program under a fair scheduler: the tokio runtime runs every task   *)
(* that is ready, so a session whose rx.recv() can return does return, and *)
(* a socket.send to a client that is still there completes.  Nothing is    *)
(* assumed of the log feed, the clients or the listener thread.            *)
(***************************************************************************)
Fairness ==
    \A s \in Sessions : WF_vars(Recv(s)) /\ WF_vars(SocketSendOk(s))

FairSpec == Init /\ [][Next]_vars /\ Fairness

(***************************************************************************)
(* Notions the properties are stated in.                                   *)
(***************************************************************************)
\* The values the channel retains for receiver s and s has not read: the
\* session's queue, oldest first.
QueueStart(s) == IF tail - next[s] > Capacity THEN tail - Capacity ELSE next[s]

Queue(s) ==
    [i \in 1..(tail - QueueStart(s)) |-> buffer[SlotIndex(QueueStart(s) + i - 1)].val]

\* The step is a call of tx.send.
Publishes == published' # published

\* The event of the tx.send call of the step.
PublishedEvent == published'[Len(published')].event

\* The line whose processing the listener is about to do.
CurrentLine == Feeds[feedNo][msgIdx][logIdx]

\* Index in published of the tx.send call that stored position pos, 0 if none.
RECURSIVE PubIndexFrom(_, _)
PubIndexFrom(pos, i) ==
    IF i > Len(published) THEN 0
    ELSE IF published[i].pos = pos THEN i
    ELSE PubIndexFrom(pos, i + 1)

PubIndex(pos) == PubIndexFrom(pos, 1)

\* The frames session s has taken from its queue: those written to the
\* socket, then the one inside socket.send.
Taken(s) == IF spc[s] = "send" THEN Append(sent[s], pending[s]) ELSE sent[s]

(***************************************************************************)
(* C1.  Publish never blocks: whenever the listener has a log line to      *)
(* process, the step that processes it (tx.send included) can be taken at  *)
(* once, whatever the sessions' backlogs and whether or not a session is   *)
(* inside socket.send; and whenever the feed has a message for the         *)
(* listener, it can take it.                                               *)
(***************************************************************************)
C1_PublishNeverBlocks ==
    /\ lpc = "logs" => ENABLED ProcessLog
    /\ (lpc = "recv" /\ feed = "open" /\ msgIdx < Len(Feeds[feedNo]))
          => ENABLED RecvMsg

\* The listener is about to publish while one session's queue is full and
\* a session is inside socket.send to a client that is gone.
C1_Witness ==
    /\ lpc = "logs"
    /\ Decoded[CurrentLine].ok
    /\ \E s \in Active : Backlog(s) >= Capacity
    /\ \E s \in Active : spc[s] = "send" /\ conn[s] = "broken"

(***************************************************************************)
(* C2.  No double delivery: the frames a session takes from its queue      *)
(* carry pairwise different positions of the channel, each position        *)
(* belongs to one tx.send call, and a tx.send adds exactly one copy of     *)
(* its event to the queue of every active session whose queue is not       *)
(* full, while no session's taken frames change in that step.              *)
(***************************************************************************)
C2_AtMostOnce ==
    \A s \in Sessions :
        \A i, j \in 1..Len(Taken(s)) :
            i # j => Taken(s)[i].pos # Taken(s)[j].pos

C2_OnePositionPerSend ==
    \A i, j \in 1..Len(published) :
        (i # j /\ published[i].pos >= 0) => published[i].pos # published[j].pos

C2_OneCopyEach ==
    Publishes =>
        \A s \in Active :
            /\ Backlog(s) < Capacity => Queue(s)' = Append(Queue(s), PublishedEvent)
            /\ Taken(s)' = Taken(s)

C2_NoDoubleDelivery ==
    /\ [](C2_AtMostOnce /\ C2_OnePositionPerSend)
    /\ [][C2_OneCopyEach]_vars

\* Two connected sessions have both been sent the same two events.
C2_Witness ==
    /\ Len(sent[1]) >= 2
    /\ Len(sent[2]) >= 2
    /\ sent[1][1].pos = sent[2][1].pos
    /\ sent[1][2].pos = sent[2][2].pos

(***************************************************************************)
(* C3.  Per-subscriber order: the frames sent on a session's socket are,   *)
(* in order, the JSON texts of tx.send calls taken in increasing order of  *)
(* publication: a subsequence of the published sequence.                   *)
(***************************************************************************)
C3_PerSubscriberOrder ==
    \A s \in Sessions :
        /\ \A i \in 1..Len(sent[s]) :
              /\ PubIndex(sent[s][i].pos) > 0
              /\ sent[s][i].frame =
                    serde_json_to_string(published[PubIndex(sent[s][i].pos)].event)
        /\ \A i, j \in 1..Len(sent[s]) :
              i < j => PubIndex(sent[s][i].pos) < PubIndex(sent[s][j].pos)

\* A session has been sent three frames, not all of the same event.
C3_Witness ==
    \E s \in Sessions :
        /\ Len(sent[s]) >= 3
        /\ sent[s][1].frame # sent[s][2].frame

(***************************************************************************)
(* C4.  Drop-oldest on overflow.  As claimed, with C the number passed to  *)
(* broadcast::channel: a tx.send while a session's queue holds C values    *)
(* drops that queue's oldest value and appends the new one.                *)
(***************************************************************************)
C4_Original ==
    [][ Publishes =>
          \A s \in Active :
              Backlog(s) = RequestedCapacity =>
                  Queue(s)' = Append(Tail(Queue(s)), PublishedEvent) ]_vars

(***************************************************************************)
(* C4, amended.  With C the channel's number of slots (the number passed   *)
(* to broadcast::channel rounded up to a power of two): a tx.send while a  *)
(* session's queue holds C values drops that queue's oldest value and      *)
(* appends the new one; in the same step every other session whose queue   *)
(* is not full gets the new value appended and loses nothing, and no       *)
(* session's state or taken frames change.                                 *)
(***************************************************************************)
C4_DropOldestAtCapacity ==
    [][ Publishes =>
          \A s \in Active :
              /\ Backlog(s) >= Capacity =>
                    Queue(s)' = Append(Tail(Queue(s)), PublishedEvent)
              /\ Backlog(s) < Capacity =>
                    Queue(s)' = Append(Queue(s), PublishedEvent)
              /\ spc'[s] = spc[s]
              /\ next'[s] = next[s]
              /\ Taken(s)' = Taken(s) ]_vars

\* A session's oldest value has been overwritten while another session,
\* which keeps up, still holds values to read.
C4_Witness ==
    \E s, t \in Active :
        /\ Backlog(s) > Capacity
        /\ Backlog(t) > 0
        /\ Backlog(t) < Capacity

(***************************************************************************)
(* C5.  Subscriber isolation: the step in which a session ends changes     *)
(* nothing of the listener, of the channel's contents or of any other      *)
(* session; and as long as a session is active every tx.send stores its    *)
(* event in the channel at the next position, where the session's queue    *)
(* holds it.                                                               *)
(***************************************************************************)
SessionState(s) == << spc[s], next[s], pending[s], sent[s], conn[s], exit[s], subPos[s] >>

C5_EndIsLocal ==
    \A s \in Sessions :
        (spc[s] # "closed" /\ spc'[s] = "closed") =>
            /\ UNCHANGED << feedNo, feed, lpc, msgIdx, logIdx >>
            /\ UNCHANGED << tail, buffer, published >>
            /\ \A t \in Sessions \ {s} : SessionState(t)' = SessionState(t)

C5_OthersStillServed ==
    (Publishes /\ Active # {}) =>
        /\ published'[Len(published')].pos = tail
        /\ tail' = tail + 1
        /\ buffer'[SlotIndex(tail)] = [pos |-> tail, val |-> PublishedEvent]

C5_SubscriberIsolation == [][C5_EndIsLocal /\ C5_OthersStillServed]_vars

\* A session ended on a failed send; another one is active and has been
\* sent events the failed one never took.
C5_Witness ==
    \E s, t \in Sessions :
        /\ exit[s] = "send_error"
        /\ t \in Active
        /\ Len(sent[t]) >= 2
        /\ sent[t][Len(sent[t])].pos >= next[s]

(***************************************************************************)
(* C6.  Malformed input is non-fatal: processing a line without the        *)
(* marker, with invalid base64, with fewer than 8 bytes, with an unknown   *)
(* tag or with a body of the wrong size changes neither the channel nor    *)
(* any session and leaves the listener running; the tx.send calls made so  *)
(* far are exactly those of the well-formed lines processed so far.        *)
(***************************************************************************)
WellFormed == { "created", "accepted", "completed" }

Malformed == { "noMarker", "badBase64", "short", "unknownTag", "noOrderField", "longBody" }

IsWellFormed(id) == id \in WellFormed

RECURSIVE Flatten(_)
Flatten(msgs) == IF msgs = <<>> THEN <<>> ELSE Head(msgs) \o Flatten(Tail(msgs))

\* The lines the listener has processed so far.
Processed ==
    IF lpc = "logs"
    THEN Flatten(Take(Feeds[feedNo], msgIdx - 1))
         \o Take(Feeds[feedNo][msgIdx], logIdx - 1)
    ELSE Flatten(Take(Feeds[feedNo], msgIdx))

C6_OnlyWellFormedPublished ==
    [i \in 1..Len(published) |-> published[i].line] = SelectSeq(Processed, IsWellFormed)

C6_MalformedStep ==
    (lpc = "logs" /\ << lpc, logIdx >>' # << lpc, logIdx >> /\ CurrentLine \in Malformed) =>
        /\ UNCHANGED << tail, rx_cnt, buffer, published >>
        /\ UNCHANGED sessionVars
        /\ feed' = feed
        /\ lpc' \in {"logs", "recv"}

C6_MalformedNonFatal == []C6_OnlyWellFormedPublished /\ [][C6_MalformedStep]_vars

\* The feed with the malformed lines has been processed to its end, and a
\* session has been sent the two well-formed events and nothing else.
C6_Witness ==
    /\ feedNo = 1
    /\ lpc = "recv"
    /\ msgIdx = Len(Feeds[1])
    /\ Len(published) = 2
    /\ \E s \in Sessions :
          /\ Len(sent[s]) = 2
          /\ sent[s][1].frame = serde_json_to_string(Decoded["created"].val)
          /\ sent[s][2].frame = serde_json_to_string(Decoded["accepted"].val)

(***************************************************************************)
(* C7.  End-to-end scenario.  As claimed: the line "Program data: " +      *)
(* base64(tag(OrderCreated) ++ order_id=42 ++ customer=<32 zero bytes> ++  *)
(* amount=1000), processed while 2 sessions are connected, publishes an    *)
(* OrderCreated event with order_id 42, the zero identifier's text as      *)
(* customer and amount 1000, which is queued for both.                     *)
(***************************************************************************)
ProcessesLine(id) ==
    lpc = "logs" /\ << lpc, logIdx >>' # << lpc, logIdx >> /\ CurrentLine = id

ScenarioDelivered ==
    /\ Publishes
    /\ PublishedEvent.type = "OrderCreated"
    /\ PublishedEvent.order_id = 42
    /\ PublishedEvent.customer = "11111111111111111111111111111111"
    /\ PublishedEvent.amount = 1000
    /\ \A s \in Active :
          Backlog(s) < Capacity => Queue(s)' = Append(Queue(s), PublishedEvent)

C7_Original ==
    [][ (ProcessesLine("noOrderField") /\ Cardinality(Active) = 2)
          => ScenarioDelivered ]_vars

(***************************************************************************)
(* C7, amended.  The payload carries the order identifier as well, as the  *)
(* OrderCreated schema has it: the line "Program data: " +                 *)
(* base64(tag(OrderCreated) ++ order=<32 bytes> ++ order_id=42 ++          *)
(* customer=<32 zero bytes> ++ amount=1000), processed while 2 sessions    *)
(* are connected, publishes that event and queues it for both, and the     *)
(* frame a session takes for it is the JSON text below.                    *)
(***************************************************************************)
ScenarioFrame ==
    "{\"type\":\"OrderCreated\",\"order\":\"4wBqpZM9xaSheZzJSMawUKKwhdpChKbZ5eu5ky4Vigw\",\"order_id\":42,\"customer\":\"11111111111111111111111111111111\",\"amount\":1000}"

C7_ScenarioFrames ==
    \A s \in Sessions :
        \A i \in 1..Len(Taken(s)) :
            (/\ PubIndex(Taken(s)[i].pos) > 0
             /\ published[PubIndex(Taken(s)[i].pos)].line = "created")
                => Taken(s)[i].frame = ScenarioFrame

C7_EndToEnd ==
    /\ []C7_ScenarioFrames
    /\ [][ (ProcessesLine("created") /\ Cardinality(Active) = 2)
             => ScenarioDelivered ]_vars

\* The scenario's event was published while both sessions were connected,
\* and both have been sent its frame.
C7_Witness ==
    \E p \in 0..tail :
        /\ PubIndex(p) > 0
        /\ published[PubIndex(p)].line = "created"
        /\ \A s \in {1, 2} :
              /\ subPos[s] >= 0
              /\ subPos[s] <= p
              /\ \E i \in 1..Len(sent[s]) :
                    sent[s][i] = [pos |-> p, frame |-> ScenarioFrame]

(***************************************************************************)
(* C8.  Closed is terminal: a failed socket.send ends the session and      *)
(* releases its receiver; a closed session's state never changes again     *)
(* (no recv, no send, no return to the loop); the channel counts exactly   *)
(* the sessions inside the loop as receivers, and a tx.send with none of   *)
(* them stores nothing.                                                    *)
(***************************************************************************)
C8_ReceiversAreActiveSessions == rx_cnt = Cardinality(Active)

C8_Step ==
    /\ \A s \in Sessions :
          /\ spc[s] = "closed" => SessionState(s)' = SessionState(s)
          /\ (spc[s] = "send" /\ conn[s] = "broken" /\ SessionState(s)' # SessionState(s)) =>
                /\ spc'[s] = "closed"
                /\ sent'[s] = sent[s]
                /\ next'[s] = next[s]
                /\ rx_cnt' = rx_cnt - 1
    /\ (Publishes /\ Active = {}) => UNCHANGED << tail, buffer >>

C8_ClosedIsTerminal == []C8_ReceiversAreActiveSessions /\ [][C8_Step]_vars

\* A session that had been sent a frame ended on a failed send, and a later
\* tx.send found no receiver.
C8_Witness ==
    /\ Active = {}
    /\ \E s \in Sessions : exit[s] = "send_error" /\ Len(sent[s]) >= 1
    /\ Len(published) >= 2
    /\ published[1].pos = 0
    /\ published[Len(published)].pos = -1

(***************************************************************************)
(* C9.  No back-fill: a session starts with an empty queue and has taken   *)
(* nothing; every frame it takes is that of an event stored at a position  *)
(* not before the tail at its subscription; a tx.send with no receiver     *)
(* stores nothing and the listener goes on.                                *)
(***************************************************************************)
C9_OnlyLaterEvents ==
    \A s \in Sessions :
        \A i \in 1..Len(Taken(s)) :
            /\ Taken(s)[i].pos >= subPos[s]
            /\ PubIndex(Taken(s)[i].pos) > 0
            /\ Taken(s)[i].frame =
                  serde_json_to_string(published[PubIndex(Taken(s)[i].pos)].event)

C9_Step ==
    /\ \A s \in Sessions :
          (spc[s] = "idle" /\ spc'[s] # "idle") =>
              /\ Queue(s)' = <<>>
              /\ Taken(s)' = <<>>
    /\ (Publishes /\ Active = {}) =>
          /\ UNCHANGED << tail, buffer >>
          /\ published'[Len(published')].pos = -1
          /\ lpc' \in {"logs", "recv"}

C9_NoBackfill == []C9_OnlyLaterEvents /\ [][C9_Step]_vars

\* The first event was published with no session connected; a session that
\* subscribed afterwards has been sent a later event.
C9_Witness ==
    /\ Len(published) >= 2
    /\ published[1].pos = -1
    /\ \E s \in Sessions : Len(sent[s]) >= 1 /\ subPos[s] = 0

(***************************************************************************)
(* C10.  Feed failure is a hard stop: once the logs subscription has       *)
(* failed or the feed has ended the listener is stopped, and from then on  *)
(* the feed is not subscribed again, no message is received, no line is    *)
(* processed and nothing is published.                                     *)
(***************************************************************************)
C10_StoppedWhenFeedOver == feed \in {"failed", "ended"} => lpc = "stopped"

C10_Step ==
    lpc = "stopped" =>
        /\ UNCHANGED << feedNo, feed, lpc, msgIdx, logIdx >>
        /\ UNCHANGED << tail, buffer, published >>

C10_FeedFailureIsHardStop == []C10_StoppedWhenFeedOver /\ [][C10_Step]_vars

\* The feed ended with messages still to come, after an event had been
\* published; a session that was sent everything is still connected.
C10_Witness ==
    /\ feed = "ended"
    /\ lpc = "stopped"
    /\ msgIdx < Len(Feeds[feedNo])
    /\ published # <<>>
    /\ \E s \in Active : Len(sent[s]) >= 1 /\ Backlog(s) = 0 /\ spc[s] = "recv"

(***************************************************************************)
(* C11.  OrderCreated round trip: for every order identifier, order_id,   *)
(* customer identifier and amount of the input sets, the line emitted for  *)
(* the OrderCreated discriminator followed by the canonical body (order,   *)
(* order_id as u64 little-endian, customer, amount as u64 little-endian)   *)
(* is decoded to one OrderCreated struct whose identifier bytes, order_id  *)
(* and amount are the encoded ones, and exactly that event, identifiers    *)
(* as text, is handed to tx.send.                                          *)
(***************************************************************************)
\* The pipeline has been applied to a canonical OrderCreated line.
C11_Case ==
    /\ codecOut.done
    /\ codecIn.tag = "OrderCreated"
    /\ codecIn.layout = "OrderCreated"
    /\ codecIn.pad = 0

C11_RoundTrip ==
    C11_Case =>
        /\ codecOut.decoded =
              Ok([ type |-> "OrderCreated",
                   e    |-> [ order    |-> codecIn.order,
                              order_id |-> codecIn.order_id,
                              customer |-> codecIn.party,
                              amount   |-> codecIn.amount ] ])
        /\ codecOut.publish =
              Ok(WebEvent_OrderCreated(Pubkey_to_string(codecIn.order),
                                       codecIn.order_id,
                                       Pubkey_to_string(codecIn.party),
                                       codecIn.amount))

\* A round trip with two different identifiers and two different integers
\* of several bytes has been made.
C11_Witness ==
    /\ C11_Case
    /\ codecOut.publish.ok
    /\ codecIn.order # codecIn.party
    /\ codecIn.order_id = 16909060
    /\ codecIn.amount = 2147483647

(***************************************************************************)
(* C12.  A session leaves Connected only because one of its socket sends   *)
(* failed: every session whose handle_socket has returned left its loop    *)
(* at a failed socket.send, never because its queue overflowed, a          *)
(* serialization failed or the log feed ended.                             *)
(***************************************************************************)
C12_OnlySendFailureCloses ==
    \A s \in Sessions : spc[s] = "closed" => exit[s] = "send_error"

(***************************************************************************)
(* C13.  Exact-width decoding: a payload whose discriminator is that of    *)
(* schema S yields an event, of schema S, exactly when the data after the  *)
(* discriminator has S's fixed width (OrderCreated 80 bytes, OrderAccepted *)
(* 64, OrderCompleted 80); data one byte shorter or one byte longer, or as *)
(* wide as another schema's, yields nothing to publish.                    *)
(***************************************************************************)
C13_Width(schema) ==
    CASE schema = "OrderCreated" -> 80
      [] schema = "OrderAccepted" -> 64
      [] schema = "OrderCompleted" -> 80

C13_ExactWidth ==
    (codecOut.done /\ codecIn.tag \in CodecLayouts) =>
        /\ codecOut.width = Len(CodecBody(codecIn))
        /\ codecOut.decoded.ok <=> codecOut.width = C13_Width(codecIn.tag)
        /\ codecOut.publish.ok <=> codecOut.width = C13_Width(codecIn.tag)
        /\ codecOut.decoded.ok => codecOut.decoded.val.type = codecIn.tag
        /\ codecOut.publish.ok => codecOut.publish.val.type = codecIn.tag

\* An OrderCreated body followed by one more byte was dropped.
C13_Witness ==
    /\ codecOut.done
    /\ codecIn.tag = "OrderCreated"
    /\ codecIn.layout = "OrderCreated"
    /\ codecIn.pad = 1
    /\ codecOut.width = 81
    /\ ~codecOut.decoded.ok
    /\ ~codecOut.publish.ok

(***************************************************************************)
(* C14.  Single dispatch: a log line leads to at most one event handed to  *)
(* tx.send.  Only the schema whose discriminator the payload starts with   *)
(* is decoded: when that decode succeeds the one event is of that schema,  *)
(* when it fails nothing is published, even if the data is a valid body    *)
(* of another schema; a payload with an unknown discriminator publishes    *)
(* nothing.                                                                *)
(***************************************************************************)
\* The data after the discriminator decodes under schema.
C14_DecodesAs(schema, data) ==
    CASE schema = "OrderCreated" -> OrderCreated_try_from_slice(data).ok
      [] schema = "OrderAccepted" -> OrderAccepted_try_from_slice(data).ok
      [] schema = "OrderCompleted" -> OrderCompleted_try_from_slice(data).ok
      [] OTHER -> FALSE

C14_SingleDispatch ==
    codecOut.done =>
        /\ codecOut.publish.ok <=> C14_DecodesAs(codecIn.tag, CodecBody(codecIn))
        /\ codecOut.publish.ok =>
              /\ codecOut.decoded.ok
              /\ codecOut.decoded.val.type = codecIn.tag
              /\ codecOut.publish.val =
                    web_event(codecIn.tag, codecOut.decoded.val.e)
        /\ ~codecOut.publish.ok => ~codecOut.decoded.ok

\* The OrderCreated discriminator followed by a valid OrderAccepted body:
\* the OrderCreated decode failed and OrderAccepted was not tried.
C14_Witness ==
    /\ codecOut.done
    /\ codecIn.tag = "OrderCreated"
    /\ codecIn.layout = "OrderAccepted"
    /\ codecIn.pad = 0
    /\ OrderAccepted_try_from_slice(CodecBody(codecIn)).ok
    /\ ~codecOut.publish.ok

(***************************************************************************)
(* C15.  Eventual delivery: under fair scheduling of the sessions, every   *)
(* event published after a session subscribed is eventually written to     *)
(* that session's socket, unless the session's client goes away (a send    *)
(* fails) or the session falls more than the requested capacity behind.    *)
(***************************************************************************)
\* The positions events of the model's feeds can get.
C15_Positions ==
    LET lens == { Len(Flatten(Feeds[f])) : f \in 1..Len(Feeds) }
        most == CHOOSE n \in lens : \A m \in lens : m <= n
    IN  0..(most - 1)

\* The event at position p was published after session s subscribed.
C15_Owed(s, p) ==
    /\ spc[s] \in {"recv", "send"}
    /\ subPos[s] <= p
    /\ p < tail

C15_Sent(s, p) == \E i \in 1..Len(sent[s]) : sent[s][i].pos = p

C15_Excused(s) == conn[s] # "open" \/ Backlog(s) > RequestedCapacity

C15_EventualDelivery ==
    \A s \in Sessions : \A p \in C15_Positions :
        C15_Owed(s, p) ~> (C15_Sent(s, p) \/ C15_Excused(s))

\* A session that was behind by the requested capacity has been sent
\* everything published since it subscribed, and its client is still there.
C15_Witness ==
    \E s \in Sessions :
        /\ spc[s] = "recv"
        /\ conn[s] = "open"
        /\ tail - subPos[s] >= RequestedCapacity
        /\ Backlog(s) = 0
        /\ \A p \in subPos[s]..(tail - 1) : C15_Sent(s, p)

(***************************************************************************)
(* C16.  Bounded queues: in every reachable state the channel holds, for   *)
(* any live session, no more published events the session has not yet      *)
(* consumed than the channel has slots, which is the requested capacity    *)
(* rounded up to a power of two, however many events were published and    *)
(* however slow the session is.  (As claimed: no more than the requested   *)
(* capacity.)                                                              *)
(***************************************************************************)
\* The slots holding a value session s has not consumed.
C16_Retained(s) == { i \in DOMAIN buffer : buffer[i].pos >= next[s] }

C16_Original ==
    \A s \in Active : Cardinality(C16_Retained(s)) <= RequestedCapacity

C16_BoundedQueues ==
    \A s \in Active : Cardinality(C16_Retained(s)) <= Capacity

\* More events were published than the channel has slots while a session
\* consumed none: every slot holds an event the session has not consumed.
C16_Witness ==
    \E s \in Active :
        /\ Backlog(s) > Capacity
        /\ Cardinality(C16_Retained(s)) = Capacity
        /\ Capacity > RequestedCapacity

(***************************************************************************)
(* C17.  Disconnect detected only at a send.  As claimed: a session whose  *)
(* client has gone away ends only at a failed send, and only after an      *)
(* event was published since the client went away.  As the code has it:    *)
(* the client's going away changes nothing in the session; the session     *)
(* stays in its loop, its receiver counted, until its next socket.send     *)
(* fails (of an event in flight or queued when the client went away, or    *)
(* of a later one) or its rx.recv() fails because its queue overflowed;    *)
(* with nothing in flight or queued it stays for as long as nothing is     *)
(* published.                                                              *)
(***************************************************************************)
\* Session s is in handle_socket's loop and its client has gone away.
C17_Gone(s) == spc[s] \in {"recv", "send"} /\ conn[s] = "broken"

C17_OriginalStep ==
    \A s \in Sessions :
        (C17_Gone(s) /\ spc'[s] = "closed") =>
            /\ exit'[s] = "send_error"
            /\ publishedSinceGone[s]

C17_Original == [][C17_OriginalStep]_vars

C17_Step ==
    \A s \in Sessions :
        \* the step in which the client goes away tells the session nothing
        /\ (conn[s] = "open" /\ conn'[s] # "open") =>
              \/ /\ spc[s] = "recv"
                 /\ Backlog(s) > Capacity
                 /\ exit'[s] = "recv_error"
              \/ /\ conn'[s] = "broken"
                 /\ SessionState(s)' = [SessionState(s) EXCEPT ![5] = "broken"]
                 /\ UNCHANGED rx_cnt
        /\ C17_Gone(s) =>
              \* nothing more is written to the socket
              /\ sent'[s] = sent[s]
              \* the session ends at a failed send or at a failed recv
              /\ spc'[s] = "closed" =>
                    \/ spc[s] = "send" /\ exit'[s] = "send_error"
                    \/ /\ spc[s] = "recv"
                       /\ Backlog(s) > Capacity
                       /\ exit'[s] = "recv_error"
              \* until then it is a subscriber
              /\ spc'[s] # "closed" =>
                    /\ C17_Gone(s)'
                    /\ rx_cnt' = Cardinality(Active')
              \* waiting on an empty queue, it waits on
              /\ (spc[s] = "recv" /\ Backlog(s) = 0) =>
                    /\ spc'[s] = "recv"
                    /\ ~Publishes => Backlog(s)' = 0

C17_DetectedOnlyAtSend == [][C17_Step]_vars

\* A session ended at a failed send although nothing was published after
\* its client went away, and another session whose client has gone away
\* waits on its empty queue after the listener has stopped.
C17_Witness ==
    \E s, t \in Sessions :
        /\ spc[s] = "closed"
        /\ exit[s] = "send_error"
        /\ ~publishedSinceGone[s]
        /\ C17_Gone(t)
        /\ spc[t] = "recv"
        /\ Backlog(t) = 0
        /\ lpc = "stopped"

(***************************************************************************)
(* C18.  Sessions outlive the pipeline: after the listener thread has      *)
(* stopped the channel still has a sender, the router's, so it is not      *)
(* closed.  The stop itself changes nothing in any session; afterwards a   *)
(* client can still connect and subscribe, a session waiting on its empty  *)
(* queue goes on waiting and is sent nothing, sessions are sent only what  *)
(* was published before the stop, and a session ends only at a failed     *)
(* send or an overflowed queue, never because the feed stopped.            *)
(***************************************************************************)
\* The senders: the router's, the listener's while it runs, one per session
\* in handle_socket.
C18_RouterHoldsSender ==
    /\ num_tx = 1 + (IF lpc = "stopped" THEN 0 ELSE 1) + Cardinality(Active)
    /\ num_tx >= 1

C18_CanStillSubscribe ==
    lpc = "stopped" =>
        \A s \in Sessions :
            (spc[s] = "idle" /\ (IF s = 1 THEN TRUE ELSE spc[s - 1] # "idle"))
                => ENABLED Subscribe(s)

\* A session that subscribed when everything had been published waits.
C18_NothingForLateSubscribers ==
    lpc = "stopped" =>
        \A s \in Sessions :
            (spc[s] # "idle" /\ subPos[s] = tail) =>
                spc[s] = "recv" /\ sent[s] = <<>> /\ exit[s] = "none"

C18_Step ==
    /\ (lpc # "stopped" /\ lpc' = "stopped") =>
          /\ UNCHANGED sessionVars
          /\ UNCHANGED << tail, rx_cnt, buffer >>
          /\ num_tx' >= 1
    /\ lpc = "stopped" =>
          \A s \in Sessions :
              /\ (spc[s] = "recv" /\ Backlog(s) = 0) =>
                    /\ spc'[s] = "recv"
                    /\ sent'[s] = sent[s]
                    /\ Backlog(s)' = 0
              /\ sent'[s] # sent[s] =>
                    /\ sent'[s] = Append(sent[s], pending[s])
                    /\ PubIndex(pending[s].pos) # 0
              /\ (spc[s] # "closed" /\ spc'[s] = "closed") =>
                    \/ spc[s] = "send" /\ conn[s] = "broken"
                    \/ spc[s] = "recv" /\ Backlog(s) > Capacity

C18_SessionsOutliveThePipeline ==
    /\ [](C18_RouterHoldsSender /\ C18_CanStillSubscribe
            /\ C18_NothingForLateSubscribers)
    /\ [][C18_Step]_vars

\* The listener has stopped; a session that was sent an event waits on its
\* empty queue with its client there, the router's sender and the session's
\* are the only ones, and a second client can connect.
C18_Witness ==
    /\ lpc = "stopped"
    /\ spc[1] = "recv"
    /\ conn[1] = "open"
    /\ Len(sent[1]) >= 1
    /\ Backlog(1) = 0
    /\ num_tx = 2
    /\ spc[2] = "idle"
    /\ ENABLED Subscribe(2)

=============================================================================
